---- MODULE Spec2Model ----
(***************************************************************************)
(* Two-phase commit simulator: one TransactionCoordinator, a registry of   *)
(* Participant objects, and one thread per transaction id running          *)
(* send_prepare -> handle_prepare_response -> send_commit/abort_transaction*)
(* (2-Phase-Distributed-Commit-Prortocol.py).                              *)
(*                                                                         *)
(* Every statement of the source that reads or writes shared state (the    *)
(* transaction_state dict, a participant's connection) is one step of the  *)
(* thread that executes it; the sleeps are steps that change only the      *)
(* thread's position.  random.random() < 0.8 is a nondeterministic         *)
(* boolean.                                                                *)
(***************************************************************************)
EXTENDS Naturals, Sequences, FiniteSets, TLC

\* ---- bounds of the model ------------------------------------------------
NumParticipants == 2
NumTxnIds == 2
MaxTxns == 2

ParticipantIds == 1..NumParticipants
TxnIds == 1..NumTxnIds
Threads == 1..MaxTxns

\* The participant number that stalls under fail_after_one_commit.
SENTINEL == 1

\* Participant.connection = None; a handle is a client number, 1 or more.
None == 0
ABSENT == "ABSENT"

VARIABLES
    main_pc,                \* position of the caller: setup, loop, sleep
    participants,           \* TransactionCoordinator.participants, in insertion order
    transaction_state,      \* TransactionCoordinator.transaction_state (ABSENT = no key)
    connection,             \* Participant.connection of each participant
    client_numbers,         \* arguments of start_transaction
    transaction_ids,
    fail_before_prepare,
    fail_after_one_commit,
    started,                \* iterations of start_transaction's loop done
    pc,                     \* position of the thread of transaction_ids[k]
    idx,                    \* position of the thread's current loop over participants
    responses,              \* send_prepare's local dict (NONE = no key)
    branch,                 \* branch handle_prepare_response took
    abort_entry,            \* the table's entry for the id when abort_transaction was entered
    prepare_calls,          \* calls of receive_prepare made by thread k on p
    commit_calls,           \* calls of receive_commit
    wait_calls,             \* calls of wait_commit_finish
    abort_calls,            \* calls of Participant.abort_transaction
    rounds,                 \* times send_prepare ran for thread k
    decisions,              \* times handle_prepare_response ran for thread k
    unexpected              \* participants that logged "unexpected commit message"

args == <<client_numbers, transaction_ids, fail_before_prepare, fail_after_one_commit>>
shared == <<participants, transaction_state, connection>>
calls == <<prepare_calls, commit_calls, wait_calls, abort_calls>>
local == <<pc, idx, responses, branch, abort_entry, rounds, decisions, unexpected>>
vars == <<main_pc, shared, args, started, local, calls>>

\* ---- helpers --------------------------------------------------------------
Range(s) == {s[i] : i \in 1..Len(s)}

Distinct(s) == \A i, j \in 1..Len(s) : i /= j => s[i] /= s[j]

\* Sequences over S of length 1..n
SeqsUpTo(S, n) == UNION {[1..m -> S] : m \in 1..n}

\* Faulty variant of Tid: every thread sees the id bound last by the caller's loop
\* (the thread's argument taken from the loop variable, not from its own call).
Tid_Shared(k) == transaction_ids[started]

Tid(k) == transaction_ids[k]

Live(k) == k <= started

NoCalls == [k \in Threads |-> [p \in ParticipantIds |-> 0]]

\* First position of a thread that has to loop over the registry:
\* the loop body when there is a participant, else what follows the loop.
LoopOr(inLoop, after) == IF Len(participants) = 0 THEN after ELSE inLoop

\* ---- construction (lines 7-11, 75-79, 141-143) -----------------------------
Init ==
    /\ main_pc = "setup"
    /\ participants = <<>>
    /\ transaction_state = [t \in TxnIds |-> ABSENT]
    /\ connection = [p \in ParticipantIds |-> None]
    /\ client_numbers = {}
    /\ transaction_ids = <<>>
    /\ fail_before_prepare = FALSE
    /\ fail_after_one_commit = FALSE
    /\ started = 0
    /\ pc = [k \in Threads |-> "new"]
    /\ idx = [k \in Threads |-> 1]
    /\ responses = [k \in Threads |-> [p \in ParticipantIds |-> "NONE"]]
    /\ branch = [k \in Threads |-> "none"]
    /\ abort_entry = [k \in Threads |-> "none"]
    /\ prepare_calls = NoCalls
    /\ commit_calls = NoCalls
    /\ wait_calls = NoCalls
    /\ abort_calls = NoCalls
    /\ rounds = [k \in Threads |-> 0]
    /\ decisions = [k \in Threads |-> 0]
    /\ unexpected = [k \in Threads |-> {}]

\* ---- setup -----------------------------------------------------------------
\* Participant.connect, as main calls it: the handle is the client number.
connect(p) ==
    /\ main_pc = "setup"
    /\ connection' = [connection EXCEPT ![p] = p]
    /\ UNCHANGED <<main_pc, participants, transaction_state, args, started, local, calls>>

\* TransactionCoordinator.add_participant: a dict keeps the first insertion's place.
add_participant(p) ==
    /\ main_pc = "setup"
    /\ participants' = IF p \in Range(participants) THEN participants
                       ELSE Append(participants, p)
    /\ UNCHANGED <<main_pc, transaction_state, connection, args, started, local, calls>>

\* ---- TransactionCoordinator.start_transaction --------------------------------
\* The call: binds the arguments.
start_transaction_call(ids, clients, fbp, faoc) ==
    /\ main_pc = "setup"
    /\ main_pc' = "loop"
    /\ transaction_ids' = ids
    /\ client_numbers' = clients
    /\ fail_before_prepare' = fbp
    /\ fail_after_one_commit' = faoc
    /\ UNCHANGED <<shared, started, local, calls>>

\* One iteration of the loop: the entry is set to INIT and the thread started.
start_transaction ==
    /\ main_pc = "loop"
    /\ started < Len(transaction_ids)
    /\ LET k == started + 1 IN
        /\ transaction_state' = [transaction_state EXCEPT ![transaction_ids[k]] = "INIT"]
        /\ pc' = [pc EXCEPT ![k] = LoopOr("prepare", "sleep")]
        /\ rounds' = [rounds EXCEPT ![k] = @ + 1]
        /\ started' = k
        /\ main_pc' = IF k = Len(transaction_ids) THEN "sleep" ELSE "loop"
    /\ UNCHANGED <<participants, connection, args, idx, responses, branch, abort_entry,
                   decisions, unexpected, calls>>

\* ---- Participant.receive_prepare (lines 85-102) ------------------------------
\* Faulty variant of Response: `or` in place of `and`.
Response_Or(p, clients, draw) == IF p \in clients \/ draw THEN "YES" ELSE "NO"

\* Line 93: YES only for an eligible participant whose random draw succeeds.
Response(p, clients, draw) == IF p \in clients /\ draw THEN "YES" ELSE "NO"

\* Faulty variant of StateFor: the two states are swapped.
StateFor_Swapped(response) == IF response = "NO" THEN "PREPARED" ELSE "ABORTED"

\* Lines 95-98: the state written into the coordinator's table for a response.
StateFor(response) == IF response = "NO" THEN "ABORTED" ELSE "PREPARED"

\* Line 99: the participant that sleeps timeout + 1 after replying YES.
Stalls(p, faoc) == faoc /\ p = SENTINEL

\* Faulty variant of NextParticipant: the loop stops one participant early.
NextParticipant_SkipLast(k, inLoop, after) ==
    IF idx[k] + 1 < Len(participants)
    THEN /\ idx' = [idx EXCEPT ![k] = @ + 1]
         /\ pc' = [pc EXCEPT ![k] = inLoop]
    ELSE /\ idx' = [idx EXCEPT ![k] = 1]
         /\ pc' = [pc EXCEPT ![k] = after]

\* The loop over self.participants.items() moves on to its next call at `inLoop`,
\* or ends and goes to `after`.
NextParticipant(k, inLoop, after) ==
    IF idx[k] < Len(participants)
    THEN /\ idx' = [idx EXCEPT ![k] = @ + 1]
         /\ pc' = [pc EXCEPT ![k] = inLoop]
    ELSE /\ idx' = [idx EXCEPT ![k] = 1]
         /\ pc' = [pc EXCEPT ![k] = after]

\* Faulty variant of StoreResponse: a NO is not recorded (only YES answers are kept).
StoreResponse_DropNo(k, p, response) ==
    /\ responses' = IF response = "NO" THEN responses
                    ELSE [responses EXCEPT ![k][p] = response]
    /\ NextParticipant(k, "prepare", "sleep")

\* Line 33: the returned response is stored and the loop continues; after the
\* loop comes time.sleep(timeout).
StoreResponse(k, p, response) ==
    /\ responses' = [responses EXCEPT ![k][p] = response]
    /\ NextParticipant(k, "prepare", "sleep")

\* Faulty variant of Vote: fail_before_prepare is not looked at.
Vote_IgnoreFlag(p, clients, fbp, draw) == Response(p, clients, draw)

\* Lines 90-93: the value receive_prepare returns.
Vote(p, clients, fbp, draw) == IF fbp THEN "NO" ELSE Response(p, clients, draw)

\* Line 32, one call of receive_prepare up to its return or its stall.
receive_prepare(k) ==
    /\ pc[k] = "prepare"
    /\ \E draw \in BOOLEAN :
        LET p == participants[idx[k]]
            response == Vote(p, client_numbers, fail_before_prepare, draw)
        IN  /\ prepare_calls' = [prepare_calls EXCEPT ![k][p] = @ + 1]
            \* lines 90-92 return before anything is written; lines 95-98 write
            /\ transaction_state' =
                   IF fail_before_prepare THEN transaction_state
                   ELSE [transaction_state EXCEPT ![Tid(k)] = StateFor(response)]
            /\ IF ~fail_before_prepare /\ response = "YES"
                  /\ Stalls(p, fail_after_one_commit)
               THEN /\ pc' = [pc EXCEPT ![k] = "stall"]
                    /\ UNCHANGED <<idx, responses>>
               ELSE StoreResponse(k, p, response)
    /\ UNCHANGED <<main_pc, participants, connection, args, started, branch, abort_entry, rounds,
                   decisions, unexpected, commit_calls, wait_calls, abort_calls>>

\* Faulty variant of receive_prepare_stalled: the stalled call never returns.
receive_prepare_stalled_Forever(k) ==
    /\ pc[k] = "stall"
    /\ UNCHANGED vars

\* Faulty variant of receive_prepare_stalled: the round does not wait for the stalled
\* call; the timeout sleep starts and the vote is never collected.
receive_prepare_stalled_Abandoned(k) ==
    /\ pc[k] = "stall"
    /\ idx' = [idx EXCEPT ![k] = 1]
    /\ pc' = [pc EXCEPT ![k] = "sleep"]
    /\ UNCHANGED <<main_pc, shared, args, started, responses, branch, abort_entry, rounds,
                   decisions, unexpected, calls>>

\* Lines 101-102 and 33: time.sleep(timeout + 1) ends and YES is returned.
receive_prepare_stalled(k) ==
    /\ pc[k] = "stall"
    /\ StoreResponse(k, participants[idx[k]], "YES")
    /\ UNCHANGED <<main_pc, shared, args, started, branch, abort_entry, rounds, decisions,
                   unexpected, calls>>

\* ---- TransactionCoordinator.send_prepare, after its loop (lines 34-37) -------
\* Line 35: time.sleep(timeout).
send_prepare_sleep(k) ==
    /\ pc[k] = "sleep"
    /\ pc' = [pc EXCEPT ![k] = "decide"]
    /\ UNCHANGED <<main_pc, shared, args, started, idx, responses, branch, abort_entry, rounds,
                   decisions, unexpected, calls>>

\* ---- TransactionCoordinator.handle_prepare_response (lines 39-52) ------------
\* The values of the responses dict.
Values(r) == {r[p] : p \in {q \in DOMAIN r : r[q] /= "NONE"}}

\* Faulty variant of Decision: one YES is enough to commit.
Decision_AnyYes(r) ==
    IF \E v \in Values(r) : v = "YES" THEN "commit"
    ELSE IF \E v \in Values(r) : v = "NO" THEN "abort"
    ELSE "timeout_abort"

\* Faulty variant of Decision: a commit needs at least one vote.
Decision_NeedsVote(r) ==
    IF Values(r) /= {} /\ \A v \in Values(r) : v = "YES" THEN "commit"
    ELSE IF \E v \in Values(r) : v = "NO" THEN "abort"
    ELSE "timeout_abort"

Decision(r) ==
    IF \A v \in Values(r) : v = "YES" THEN "commit"
    ELSE IF \E v \in Values(r) : v = "NO" THEN "abort"
    ELSE "timeout_abort"

handle_prepare_response(k) ==
    /\ pc[k] = "decide"
    /\ LET d == Decision(responses[k]) IN
        /\ branch' = [branch EXCEPT ![k] = d]
        /\ abort_entry' = IF d = "commit" THEN abort_entry
                          ELSE [abort_entry EXCEPT ![k] = transaction_state[Tid(k)]]
        /\ pc' = [pc EXCEPT ![k] = IF d = "commit" THEN LoopOr("commit", "commit_pop")
                                   ELSE LoopOr("abort", "abort_pop")]
    /\ decisions' = [decisions EXCEPT ![k] = @ + 1]
    /\ UNCHANGED <<main_pc, shared, args, started, idx, responses, rounds,
                   unexpected, calls>>

\* ---- TransactionCoordinator.send_commit (lines 54-65) ------------------------
\* Faulty variant of receive_commit: one pass, each participant being waited for
\* right after its notification.
receive_commit_OnePass(k) ==
    /\ pc[k] = "commit"
    /\ LET p == participants[idx[k]] IN
        /\ commit_calls' = [commit_calls EXCEPT ![k][p] = @ + 1]
        /\ wait_calls' = [wait_calls EXCEPT ![k][p] = @ + 1]
        /\ unexpected' = IF transaction_state[Tid(k)] = "PREPARED" THEN unexpected
                         ELSE [unexpected EXCEPT ![k] = @ \cup {p}]
    /\ NextParticipant(k, "commit", "commit_pop")
    /\ UNCHANGED <<main_pc, shared, args, started, responses, branch, abort_entry, rounds,
                   decisions, prepare_calls, abort_calls>>

\* Faulty variant of receive_commit: a participant that reads a state other than
\* PREPARED ends the broadcast, the transaction going on to its second pass.
receive_commit_StopOnUnexpected(k) ==
    /\ pc[k] = "commit"
    /\ LET p == participants[idx[k]] IN
        /\ commit_calls' = [commit_calls EXCEPT ![k][p] = @ + 1]
        /\ IF transaction_state[Tid(k)] = "PREPARED"
           THEN /\ UNCHANGED unexpected
                /\ NextParticipant(k, "commit", "wait")
           ELSE /\ unexpected' = [unexpected EXCEPT ![k] = @ \cup {p}]
                /\ idx' = [idx EXCEPT ![k] = 1]
                /\ pc' = [pc EXCEPT ![k] = "wait"]
    /\ UNCHANGED <<main_pc, shared, args, started, responses, branch, abort_entry, rounds,
                   decisions, prepare_calls, wait_calls, abort_calls>>

\* Lines 57-58 with Participant.receive_commit (lines 104-112): the participant
\* reads the table and logs; nothing is written.
receive_commit(k) ==
    /\ pc[k] = "commit"
    /\ LET p == participants[idx[k]] IN
        /\ commit_calls' = [commit_calls EXCEPT ![k][p] = @ + 1]
        /\ unexpected' = IF transaction_state[Tid(k)] = "PREPARED" THEN unexpected
                         ELSE [unexpected EXCEPT ![k] = @ \cup {p}]
    /\ NextParticipant(k, "commit", "wait")
    /\ UNCHANGED <<main_pc, shared, args, started, responses, branch, abort_entry, rounds,
                   decisions, prepare_calls, wait_calls, abort_calls>>

\* Lines 61-62 with Participant.wait_commit_finish (lines 114-116): pass.
wait_commit_finish(k) ==
    /\ pc[k] = "wait"
    /\ wait_calls' = [wait_calls EXCEPT ![k][participants[idx[k]]] = @ + 1]
    /\ NextParticipant(k, "wait", "commit_pop")
    /\ UNCHANGED <<main_pc, shared, args, started, responses, branch, abort_entry, rounds,
                   decisions, unexpected, prepare_calls, commit_calls, abort_calls>>

\* Faulty variant of Pop: the entry is kept.
Pop_Keep(table, t) == table

\* dict.pop(transaction_id, None): the key is removed if present, no error if not.
Pop(table, t) == [table EXCEPT ![t] = ABSENT]

\* Line 64.
send_commit_pop(k) ==
    /\ pc[k] = "commit_pop"
    /\ transaction_state' = Pop(transaction_state, Tid(k))
    /\ pc' = [pc EXCEPT ![k] = "disk"]
    /\ UNCHANGED <<main_pc, participants, connection, args, started, idx, responses,
                   branch, abort_entry, rounds, decisions, unexpected, calls>>

\* Faulty variant of send_commit_disk: after the commit the thread falls
\* through into the abort branch (`if` in place of `elif`).
send_commit_disk_FallThrough(k) ==
    /\ pc[k] = "disk"
    /\ pc' = [pc EXCEPT ![k] = LoopOr("abort", "abort_pop")]
    /\ branch' = [branch EXCEPT ![k] = "abort"]
    /\ UNCHANGED <<main_pc, shared, args, started, idx, responses, abort_entry, rounds,
                   decisions, unexpected, calls>>

\* Line 65: time.sleep(1), then the thread ends.
send_commit_disk(k) ==
    /\ pc[k] = "disk"
    /\ pc' = [pc EXCEPT ![k] = "done"]
    /\ UNCHANGED <<main_pc, shared, args, started, idx, responses, branch, abort_entry, rounds,
                   decisions, unexpected, calls>>

\* Faulty variant of Close: the connection is left as it is.
Close_Keep(c) == c

\* ---- TransactionCoordinator.abort_transaction (lines 67-72) ------------------
\* Participant.abort_transaction (lines 118-123): a set connection is closed.
Close(c) == IF c /= None THEN None ELSE c

\* Faulty variant of participant_abort_transaction: the loop returns after
\* its first participant.
participant_abort_transaction_First(k) ==
    /\ pc[k] = "abort"
    /\ LET p == participants[idx[k]] IN
        /\ abort_calls' = [abort_calls EXCEPT ![k][p] = @ + 1]
        /\ connection' = [connection EXCEPT ![p] = Close(@)]
    /\ idx' = [idx EXCEPT ![k] = 1]
    /\ pc' = [pc EXCEPT ![k] = "abort_pop"]
    /\ UNCHANGED <<main_pc, participants, transaction_state, args, started, responses,
                   branch, abort_entry, rounds, decisions, unexpected, prepare_calls,
                   commit_calls, wait_calls>>

\* Lines 70-71.
participant_abort_transaction(k) ==
    /\ pc[k] = "abort"
    /\ LET p == participants[idx[k]] IN
        /\ abort_calls' = [abort_calls EXCEPT ![k][p] = @ + 1]
        /\ connection' = [connection EXCEPT ![p] = Close(@)]
    /\ NextParticipant(k, "abort", "abort_pop")
    /\ UNCHANGED <<main_pc, participants, transaction_state, args, started, responses,
                   branch, abort_entry, rounds, decisions, unexpected, prepare_calls, commit_calls,
                   wait_calls>>

\* Faulty variant of abort_transaction_pop: the entry is left in the table.
abort_transaction_pop_Keep(k) ==
    /\ pc[k] = "abort_pop"
    /\ pc' = [pc EXCEPT ![k] = "done"]
    /\ UNCHANGED <<main_pc, shared, args, started, idx, responses,
                   branch, abort_entry, rounds, decisions, unexpected, calls>>

\* Faulty variant of abort_transaction_pop: the entry is marked ABORTED, not removed.
abort_transaction_pop_Mark(k) ==
    /\ pc[k] = "abort_pop"
    /\ transaction_state' = [transaction_state EXCEPT ![Tid(k)] = "ABORTED"]
    /\ pc' = [pc EXCEPT ![k] = "done"]
    /\ UNCHANGED <<main_pc, participants, connection, args, started, idx, responses,
                   branch, abort_entry, rounds, decisions, unexpected, calls>>

\* Line 72, then the thread ends.
abort_transaction_pop(k) ==
    /\ pc[k] = "abort_pop"
    /\ transaction_state' = Pop(transaction_state, Tid(k))
    /\ pc' = [pc EXCEPT ![k] = "done"]
    /\ UNCHANGED <<main_pc, participants, connection, args, started, idx, responses,
                   branch, abort_entry, rounds, decisions, unexpected, calls>>

\* ---- specifications --------------------------------------------------------
ThreadStep(k) ==
    \/ receive_prepare(k)
    \/ receive_prepare_stalled(k)
    \/ send_prepare_sleep(k)
    \/ handle_prepare_response(k)
    \/ receive_commit(k)
    \/ wait_commit_finish(k)
    \/ send_commit_pop(k)
    \/ send_commit_disk(k)
    \/ participant_abort_transaction(k)
    \/ abort_transaction_pop(k)

Setup ==
    \/ \E p \in ParticipantIds : connect(p)
    \/ \E p \in ParticipantIds : add_participant(p)

\* The arguments of a run: any list of ids, as --transaction-ids (nargs='+')
\* accepts it, any clients and flags.
Begin ==
    \E ids \in SeqsUpTo(TxnIds, MaxTxns),
       clients \in SUBSET ParticipantIds, fbp \in BOOLEAN, faoc \in BOOLEAN :
        start_transaction_call(ids, clients, fbp, faoc)

Next ==
    \/ Setup
    \/ Begin
    \/ start_transaction
    \/ \E k \in Threads : ThreadStep(k)

Spec == Init /\ [][Next]_vars

\* Every started thread keeps running, and so does the caller's loop.
Fairness ==
    /\ WF_vars(start_transaction)
    /\ \A k \in Threads : WF_vars(ThreadStep(k))

FairSpec == Spec /\ Fairness

\* ==== properties ==============================================================
Registered == Range(participants)

\* The thread of transaction k has taken its decision.
Decided(k) == decisions[k] > 0

\* Thread k has invoked send_commit / abort_transaction.
CommitInvoked(k) == branch[k] = "commit"
AbortInvoked(k) == branch[k] \in {"abort", "timeout_abort"}

\* The transaction of thread k has reached its terminal outcome.
CommitCompleted(k) == CommitInvoked(k) /\ pc[k] \in {"disk", "done"}
AbortCompleted(k) == AbortInvoked(k) /\ pc[k] = "done"
Terminal(k) == CommitCompleted(k) \/ AbortCompleted(k)

\* The votes collected in the prepare round of thread k.
VotedNo(k) == \E p \in Registered : responses[k][p] = "NO"
AllVotedYes(k) == \A p \in Registered : responses[k][p] = "YES"

\* ---- C1 ----------------------------------------------------------------------
\* C1: the coordinator invokes commit for a transaction only if every vote collected
\* in its prepare round is YES, and invokes abort whenever a collected vote is NO; a
\* transaction with a NO vote gets no commit notification.
C1_DecisionRule ==
    \A k \in Threads :
        /\ CommitInvoked(k) => AllVotedYes(k)
        /\ (Decided(k) /\ VotedNo(k)) => AbortInvoked(k)
        /\ VotedNo(k) => \A p \in ParticipantIds : commit_calls[k][p] = 0

\* A round with a YES and a NO vote that was aborted.
C1_Witness ==
    \E k \in Threads :
        /\ AbortInvoked(k)
        /\ \E p, q \in Registered : responses[k][p] = "YES" /\ responses[k][q] = "NO"

\* ---- C2 ----------------------------------------------------------------------
\* C2: a transaction whose registered participants all voted YES eventually commits
\* and its id is then absent from the state table; in a run of distinct ids the id is
\* absent in every state after the commit has completed.
C2_AllYesCommits ==
    /\ \A k \in Threads :
          (pc[k] = "sleep" /\ AllVotedYes(k))
              ~> (pc[k] = "done" /\ CommitInvoked(k) /\ transaction_state[Tid(k)] = ABSENT)
    /\ [](Distinct(transaction_ids) =>
             \A k \in Threads : CommitCompleted(k) => transaction_state[Tid(k)] = ABSENT)

\* Scenario A: participants 1 and 2 registered and eligible, no failure flag, committed.
C2_Witness ==
    \E k \in Threads :
        /\ pc[k] = "done" /\ CommitInvoked(k) /\ Distinct(transaction_ids)
        /\ Registered = {1, 2} /\ client_numbers = {1, 2}
        /\ ~fail_before_prepare /\ ~fail_after_one_commit
        /\ AllVotedYes(k)

\* ---- C3 ----------------------------------------------------------------------
\* C3: a transaction in which a participant voted NO is aborted, and when its abort
\* has completed every registered participant's abort hook has been invoked exactly
\* once for it; the hook is never invoked twice for a transaction.
C3_AbortHookOnce ==
    \A k \in Threads :
        /\ \A p \in ParticipantIds : abort_calls[k][p] <= 1
        /\ (pc[k] = "done" /\ VotedNo(k)) =>
              /\ AbortInvoked(k)
              /\ \A p \in Registered : abort_calls[k][p] = 1

\* An aborted transaction of two participants, one of which voted NO.
C3_Witness ==
    \E k \in Threads :
        /\ pc[k] = "done" /\ VotedNo(k) /\ Len(participants) = 2
        /\ \E p \in Registered : responses[k][p] = "YES"

\* ---- C4 ----------------------------------------------------------------------
\* C4 as stated: with fail_before_prepare no transaction commits, whatever the registry.
C4_Original ==
    \A k \in Threads : (fail_before_prepare /\ Decided(k)) => ~CommitInvoked(k)

\* C4 amended: with fail_before_prepare and at least one registered participant, every
\* transaction is aborted and none commits, whatever the eligible clients and the ids.
C4_FailBeforePrepareAborts ==
    \A k \in Threads :
        (fail_before_prepare /\ Len(participants) > 0) =>
            /\ Decided(k) => branch[k] = "abort"
            /\ \A p \in ParticipantIds : commit_calls[k][p] = 0

\* Two transactions aborted under fail_before_prepare with every participant eligible.
C4_Witness ==
    /\ fail_before_prepare /\ Len(participants) = 2 /\ client_numbers = ParticipantIds
    /\ Len(transaction_ids) = 2
    /\ \A k \in 1..2 : pc[k] = "done" /\ branch[k] = "abort"

\* ---- C5 ----------------------------------------------------------------------
\* C5: each transaction is prepared once and decided once: one prepare round, one run
\* of the decision, one of commit and abort invoked, and the outcome never changes.
C5_DecidedOnce ==
    /\ [](\A k \in Threads :
            /\ rounds[k] <= 1 /\ decisions[k] <= 1
            /\ Decided(k) => (rounds[k] = 1 /\ (CommitInvoked(k) \/ AbortInvoked(k)))
            /\ \A p, q \in ParticipantIds :
                  /\ prepare_calls[k][p] <= 1
                  /\ ~(commit_calls[k][p] > 0 /\ abort_calls[k][q] > 0)
            /\ pc[k] = "done" => decisions[k] = 1)
    /\ [][\A k \in Threads : Decided(k) => (branch'[k] = branch[k] /\ Decided(k)')]_vars

\* Two transactions of one run, one committed and one aborted, both finished.
C5_Witness ==
    \E j, k \in Threads :
        /\ pc[j] = "done" /\ pc[k] = "done"
        /\ CommitInvoked(j) /\ AbortInvoked(k)
        /\ Len(participants) = 2

\* ---- C6 ----------------------------------------------------------------------
\* C6: in a run of distinct ids, once a transaction has reached its terminal outcome
\* the table holds no entry for its id, in that state and in every later one.
C6_EntryRemoved ==
    Distinct(transaction_ids) =>
        \A k \in Threads : Terminal(k) => transaction_state[Tid(k)] = ABSENT

\* An aborted transaction whose entry had been written by a participant, while
\* another transaction still has its entry.
C6_Witness ==
    \E j, k \in Threads :
        /\ AbortCompleted(k) /\ ~fail_before_prepare /\ Len(participants) > 0
        /\ Distinct(transaction_ids) /\ Live(j) /\ transaction_state[Tid(j)] = "PREPARED"

\* ---- C7 ----------------------------------------------------------------------
\* C7: with fail_after_one_commit and participant 1 registered and eligible, every
\* started transaction eventually reaches a terminal outcome with its entry removed,
\* also from the stall of participant 1.
C7_NoDeadlock ==
    \A k \in Threads :
        /\ (fail_after_one_commit /\ SENTINEL \in Registered /\ SENTINEL \in client_numbers
                /\ Live(k))
              ~> (pc[k] = "done" /\ Terminal(k) /\ transaction_state[Tid(k)] = ABSENT)
        /\ (pc[k] = "stall")
              ~> (pc[k] = "done" /\ Terminal(k) /\ transaction_state[Tid(k)] = ABSENT)

\* A transaction that finished after participant 1 voted YES and stalled.
C7_Witness ==
    \E k \in Threads :
        /\ fail_after_one_commit /\ SENTINEL \in Registered /\ SENTINEL \in client_numbers
        /\ responses[k][SENTINEL] = "YES" /\ pc[k] = "done"

\* ---- C8 ----------------------------------------------------------------------
\* C8: when a round decides, each registered participant has received exactly one
\* prepare call for the transaction, and nobody else any.
C8_PrepareOnce ==
    \A k \in Threads : \A p \in ParticipantIds :
        /\ prepare_calls[k][p] <= 1
        /\ (pc[k] = "decide" \/ Decided(k)) =>
              prepare_calls[k][p] = (IF p \in Registered THEN 1 ELSE 0)

\* A decided round of two registered participants.
C8_Witness ==
    \E k \in Threads : Decided(k) /\ Len(participants) = 2

\* ---- C9 ----------------------------------------------------------------------
\* Thread k takes a step of abort_transaction while the table has no entry for its id.
AbortStepOnAbsent(k) ==
    /\ pc[k] \in {"abort", "abort_pop"}
    /\ <<pc[k], idx[k]>>' /= <<pc[k], idx[k]>>
    /\ transaction_state[Tid(k)] = ABSENT

\* C9 as stated: abort invoked on an id whose entry is already removed leaves the
\* state table and every participant's connection handle as they were.
C9_Original ==
    [][\A k \in Threads :
          (abort_entry[k] = ABSENT /\ AbortStepOnAbsent(k)) =>
              (transaction_state' = transaction_state /\ connection' = connection)]_vars

\* C9 amended: abort on an id whose entry is already removed does not fail and leaves
\* the state table unchanged; it clears the connection handles that are still set and
\* changes no other, so it changes nothing when every registered participant's handle
\* is none, as it is once an earlier abort has completed (a second abort of the id).
C9_AbortOnRemoved ==
    /\ [][\A k \in Threads :
            AbortStepOnAbsent(k) =>
                /\ transaction_state' = transaction_state
                /\ pc'[k] \in {"abort", "abort_pop", "done"}
                /\ \A p \in ParticipantIds : connection'[p] \in {connection[p], None}
                /\ (\A p \in Registered : connection[p] = None) => connection' = connection
       ]_vars
    /\ [](\A j \in Threads :
            AbortCompleted(j) => \A p \in Registered : connection[p] = None)

\* Two threads of one id: one aborted it, the other then entered abort_transaction
\* with the entry already removed, and finished.
C9_Witness ==
    \E j, k \in Threads :
        /\ j /= k /\ Live(j) /\ Live(k) /\ Tid(j) = Tid(k)
        /\ AbortCompleted(j) /\ AbortCompleted(k)
        /\ abort_entry[k] = ABSENT
        /\ Len(participants) > 0

\* ---- C10 ---------------------------------------------------------------------
\* C10: a registered participant that is not an eligible client votes NO on every
\* prepare request, and every transaction of a registry with such a participant aborts.
C10_IneligibleVotesNo ==
    \A k \in Threads :
        /\ \A p \in Registered \ client_numbers : responses[k][p] \in {"NONE", "NO"}
        /\ (Decided(k) /\ (Registered \ client_numbers) /= {}) =>
              (branch[k] = "abort" /\ \A p \in ParticipantIds : commit_calls[k][p] = 0)

\* Scenario C: clients = {1}, participant 2 registered; 1 voted YES, aborted.
C10_Witness ==
    \E k \in Threads :
        /\ client_numbers = {1} /\ Registered = {1, 2}
        /\ responses[k][1] = "YES" /\ responses[k][2] = "NO"
        /\ AbortCompleted(k)

\* ---- C11 ---------------------------------------------------------------------
\* C11: when the abort of a transaction has completed, every registered participant's
\* connection handle is none and (ids distinct) the table has no entry for the id;
\* so it is for every transaction run with fail_before_prepare.
C11_AbortClears ==
    \A k \in Threads :
        AbortCompleted(k) =>
            /\ \A p \in Registered : connection[p] = None
            /\ Distinct(transaction_ids) => transaction_state[transaction_ids[k]] = ABSENT

\* Scenario B: participants 1 and 2 registered and eligible, fail_before_prepare,
\* the transaction aborted and finished.
C11_Witness ==
    \E k \in Threads :
        /\ AbortCompleted(k) /\ fail_before_prepare
        /\ Registered = {1, 2} /\ client_numbers = {1, 2}
        /\ Len(transaction_ids) = 1

\* ---- C12 ---------------------------------------------------------------------
\* Thread k makes a call of receive_prepare in this step.
PrepareCallStep(k) == prepare_calls'[k] /= prepare_calls[k]

\* The response of the call made in this step: stored at its return, or YES
\* when the call stalls before returning.
CalledResponse(k) ==
    IF pc'[k] = "stall" THEN "YES" ELSE responses'[k][participants[idx[k]]]

\* C12 as stated: every call of receive_prepare writes the state matching its vote
\* into the table under the transaction id, on every path.
C12_Original ==
    [][\A k \in Threads :
          PrepareCallStep(k) =>
              transaction_state'[transaction_ids[k]] =
                  (IF CalledResponse(k) = "YES" THEN "PREPARED" ELSE "ABORTED")]_vars

\* C12 amended: a call of receive_prepare made without fail_before_prepare writes,
\* before it returns or stalls, PREPARED for YES and ABORTED for NO under the
\* transaction id; with fail_before_prepare it returns NO and the table is unchanged.
C12_PrepareWrites ==
    [][\A k \in Threads :
          PrepareCallStep(k) =>
              IF fail_before_prepare
              THEN CalledResponse(k) = "NO" /\ transaction_state' = transaction_state
              ELSE transaction_state' =
                       [transaction_state EXCEPT ![transaction_ids[k]] =
                           IF CalledResponse(k) = "YES" THEN "PREPARED" ELSE "ABORTED"]
      ]_vars

\* A round whose calls returned NO and then YES: the table reads PREPARED.
C12_Witness ==
    \E k \in Threads :
        /\ pc[k] = "sleep" /\ ~fail_before_prepare /\ Len(participants) = 2
        /\ responses[k][participants[1]] = "NO" /\ responses[k][participants[2]] = "YES"
        /\ transaction_state[transaction_ids[k]] = "PREPARED"

\* ---- C13 ---------------------------------------------------------------------
\* The thread of transaction_ids[k] is started or takes a step.
ThreadMoves(k) == <<pc[k], idx[k]>>' /= <<pc[k], idx[k]>>

\* C13: in a run of distinct ids, a step of one transaction (its start, a prepare
\* write, its decision, its commit or abort) changes no other transaction's table
\* entry, votes or outcome, and the outcome of each transaction is the one its own
\* votes give: commit if they are all YES, abort if one is NO.
C13_Independent ==
    /\ [][Distinct(transaction_ids) =>
            \A k \in Threads :
                ThreadMoves(k) =>
                    /\ \A t \in TxnIds \ {transaction_ids[k]} :
                          transaction_state'[t] = transaction_state[t]
                    /\ \A j \in Threads \ {k} :
                          /\ branch'[j] = branch[j]
                          /\ responses'[j] = responses[j]
                          /\ <<pc[j], idx[j]>>' = <<pc[j], idx[j]>>
       ]_vars
    /\ [](\A k \in Threads :
            Decided(k) => /\ CommitInvoked(k) <=> AllVotedYes(k)
                          /\ AbortInvoked(k) <=> VotedNo(k))

\* Two transactions of distinct ids under way at once: one is being committed with
\* its entry PREPARED while the other is being aborted.
C13_Witness ==
    /\ Len(transaction_ids) = 2 /\ Distinct(transaction_ids) /\ started = 2
    /\ pc[1] = "commit" /\ pc[2] = "abort"
    /\ transaction_state[transaction_ids[1]] = "PREPARED"
    /\ transaction_state[transaction_ids[2]] = "ABORTED"

\* ---- C14 ---------------------------------------------------------------------
\* The decision of round k has been taken while one of its prepare calls has not
\* yet returned its vote.
Overtaken(k) ==
    Decided(k) /\ (pc[k] \in {"prepare", "stall"}
                   \/ \E p \in Registered : responses[k][p] = "NONE")

VoteMapComplete(k) ==
    \A p \in ParticipantIds :
        IF p \in Registered THEN responses[k][p] \in {"YES", "NO"}
        ELSE responses[k][p] = "NONE"

\* C15: when a round is evaluated, every prepare call of the round has returned and
\* the vote map holds exactly one vote for every registered participant; the branch
\* "timed out waiting for prepare responses" is never taken, and the timeout sleep
\* leaves the votes as they are.
C15_VotesComplete ==
    /\ [](\A k \in Threads :
            /\ (pc[k] \in {"sleep", "decide"} \/ Decided(k)) =>
                  /\ VoteMapComplete(k)
                  /\ \A p \in Registered : prepare_calls[k][p] = 1
            /\ branch[k] /= "timeout_abort")
    /\ [][\A k \in Threads :
            (pc[k] = "sleep" /\ pc'[k] = "decide") => responses' = responses]_vars

\* A round of two participants, one of them stalled, at its evaluation.
C15_Witness ==
    \E k \in Threads :
        /\ pc[k] = "decide" /\ Len(participants) = 2
        /\ fail_after_one_commit /\ responses[k][SENTINEL] = "YES"

\* ---- C16 ---------------------------------------------------------------------
\* C16: in a commit, every registered participant has received its commit
\* notification before any wait_commit_finish is called, and the entry is removed
\* only after both passes: in a run of distinct ids it is present during the passes,
\* and when the commit has completed each participant got one call of each pass.
C16_CommitOrder ==
    \A k \in Threads :
        /\ (\E p \in ParticipantIds : wait_calls[k][p] > 0) =>
              \A q \in Registered : commit_calls[k][q] = 1
        /\ (pc[k] = "commit") => \A p \in ParticipantIds : wait_calls[k][p] = 0
        /\ (Distinct(transaction_ids) /\ pc[k] \in {"commit", "wait", "commit_pop"}) =>
              transaction_state[transaction_ids[k]] /= ABSENT
        /\ CommitCompleted(k) =>
              \A p \in ParticipantIds :
                  /\ commit_calls[k][p] = (IF p \in Registered THEN 1 ELSE 0)
                  /\ wait_calls[k][p] = commit_calls[k][p]

\* The second pass under way over two participants, the entry still in the table.
C16_Witness ==
    \E k \in Threads :
        /\ pc[k] = "wait" /\ idx[k] = 2 /\ Len(participants) = 2
        /\ Distinct(transaction_ids)
        /\ transaction_state[transaction_ids[k]] = "PREPARED"

\* ---- C17 ---------------------------------------------------------------------
\* Thread k makes a call of receive_commit in this step.
CommitCallStep(k) == commit_calls'[k] /= commit_calls[k]

\* C17: a call of receive_commit changes neither the state table nor a connection
\* handle, whatever state it reads; a participant that reads a state other than
\* PREPARED does not stop the broadcast: every registered participant gets its
\* notification and the entry is then removed.
C17_CommitObserves ==
    /\ [][\A k \in Threads :
            /\ CommitCallStep(k) =>
                  (transaction_state' = transaction_state /\ connection' = connection)
            /\ (pc[k] = "commit_pop" /\ pc'[k] /= "commit_pop") =>
                  transaction_state'[transaction_ids[k]] = ABSENT
       ]_vars
    /\ [](\A k \in Threads :
            (pc[k] \in {"wait", "commit_pop", "disk", "done"} /\ CommitInvoked(k)) =>
                \A p \in Registered : commit_calls[k][p] = 1)

\* A completed commit whose first participant read a state other than PREPARED
\* (two threads of one id) and whose second participant was still notified.
C17_Witness ==
    \E k \in Threads :
        /\ CommitCompleted(k) /\ Len(participants) = 2
        /\ participants[1] \in unexpected[k]
        /\ commit_calls[k][participants[2]] = 1

\* ---- C18 ---------------------------------------------------------------------
\* Participant p has received receive_commit / abort_transaction for transaction id t.
GotCommit(t, p) == \E k \in 1..started : transaction_ids[k] = t /\ commit_calls[k][p] > 0
GotAbort(t, p) == \E k \in 1..started : transaction_ids[k] = t /\ abort_calls[k][p] > 0

\* C18: in a run of distinct ids no transaction id is committed at one participant
\* and aborted at another (or the same); when the transaction is terminal, either
\* every registered participant got the commit and none the abort, or every one got
\* the abort and none the commit.
C18_Agreement ==
    Distinct(transaction_ids) =>
        /\ \A t \in TxnIds : \A p, q \in ParticipantIds : ~(GotCommit(t, p) /\ GotAbort(t, q))
        /\ \A k \in Threads :
              Terminal(k) =>
                  \/ \A p \in Registered : GotCommit(Tid(k), p) /\ ~GotAbort(Tid(k), p)
                  \/ \A p \in Registered : GotAbort(Tid(k), p) /\ ~GotCommit(Tid(k), p)

\* Two terminal transactions over two participants: one delivered as commit to
\* both, the other as abort to both.
C18_Witness ==
    /\ Distinct(transaction_ids) /\ Len(transaction_ids) = 2 /\ Len(participants) = 2
    /\ Terminal(1) /\ Terminal(2)
    /\ \A p \in Registered : GotCommit(Tid(1), p) /\ GotAbort(Tid(2), p)

\* ---- C19 ---------------------------------------------------------------------
\* C19: in a run of distinct ids with a registered participant, the entry of a
\* transaction reads PREPARED throughout its commit broadcast under every
\* interleaving, and no participant takes the "unexpected commit message" branch.
C19_NoUnexpectedCommit ==
    (Distinct(transaction_ids) /\ Len(participants) > 0) =>
        \A k \in Threads :
            /\ unexpected[k] = {}
            /\ pc[k] = "commit" => transaction_state[transaction_ids[k]] = "PREPARED"

\* A participant has handled receive_commit for one transaction while another
\* transaction of the run has its entry ABORTED.
C19_Witness ==
    \E j, k \in Threads :
        /\ Distinct(transaction_ids) /\ Live(j) /\ Live(k)
        /\ pc[k] = "commit" /\ idx[k] = 2
        /\ transaction_state[Tid(j)] = "ABORTED"

\* ---- C20 ---------------------------------------------------------------------
\* C20: with no participant registered no call is made and the vote map of every
\* round stays empty; every decided transaction is committed, whatever the two
\* failure flags, its entry being INIT until it is removed; and every started
\* transaction gets there.
C20_EmptyRegistryCommits ==
    /\ [](Len(participants) = 0 =>
            \A k \in Threads :
                /\ \A p \in ParticipantIds :
                      /\ responses[k][p] = "NONE"
                      /\ prepare_calls[k][p] = 0 /\ commit_calls[k][p] = 0
                      /\ abort_calls[k][p] = 0
                /\ Decided(k) => CommitInvoked(k)
                /\ (Distinct(transaction_ids) /\ Live(k)) =>
                      transaction_state[Tid(k)] =
                          (IF pc[k] \in {"disk", "done"} THEN ABSENT ELSE "INIT"))
    /\ \A k \in Threads :
          (Len(participants) = 0 /\ Live(k)) ~> (pc[k] = "done" /\ CommitInvoked(k))

\* A committed transaction of an empty registry with both failure flags set.
C20_Witness ==
    \E k \in Threads :
        /\ Len(participants) = 0 /\ fail_before_prepare /\ fail_after_one_commit
        /\ pc[k] = "done" /\ CommitInvoked(k)

====
